---- MODULE Spec2Model ----
(***************************************************************************)
(* A model of tiny_agent.core: the ToolResult envelope, the Tool protocol  *)
(* check, the Memory store with its history, and the Agent kernel          *)
(* (register_tool, get_tool, execute_tool, run); and of tiny_agent.tools:  *)
(* what HTTPTool, FileTool and ShellTool return, and the subprocesses that *)
(* ShellTool creates.                                                      *)
(*                                                                         *)
(* Python values are tagged records ([t |-> "str", ...], [t |-> "dict",    *)
(* ...]) so that values of different Python types can be compared.         *)
(* Abstractions: the "timestamp" field of a history record reads the wall  *)
(* clock and is read by no operation, so records carry action, key and     *)
(* value only; logging is left out; a Python list of dictionary keys is    *)
(* modelled by the set of its elements (its order is not modelled).        *)
(***************************************************************************)
EXTENDS Integers, Sequences, FiniteSets, TLC

VARIABLES
    store,     \* store[a]   : Memory._store of agent a's memory (key -> value)
    history,   \* history[a] : Memory._history of agent a's memory (record objects)
    tools,     \* tools[a]   : Agent.tools of agent a (name -> registered object)
    pending,   \* pending[a][c] : the execute_tool call of task c suspended in `await`
    procs,     \* procs[p]   : the subprocess p that ShellTool.execute created
    last       \* the latest step: operation, arguments, value returned, exception raised

vars == <<store, history, tools, pending, procs, last>>

----------------------------------------------------------------------------
(* Bounds of the model *)

MaxHistory == 2     \* a memory's history is explored up to this length
MaxInFlight == 2    \* tasks (slots) that can be suspended in execute_tool per agent
NumAgents == 2      \* Agent instances constructed
MaxProcs == 1       \* subprocesses of ShellTool that exist at the same time

Agents == 1..NumAgents
Slots == 1..MaxInFlight
Pids == 1..MaxProcs

----------------------------------------------------------------------------
(* Python values *)

None == [t |-> "None"]
Str(s) == [t |-> "str", s |-> s]
EmptyDict == [t |-> "dict", keys |-> {}]

\* The keyword arguments of an execute_tool call: {"msg": "hi"}.
MsgKwargs == [t |-> "dict", keys |-> {"msg"}, msg |-> Str("hi")]
Kwargs == {MsgKwargs}

\* ToolResult(success=..., data=..., error=...); metadata defaults to {}.
ToolResult(success, data, error) ==
    [t |-> "ToolResult", success |-> success, data |-> data, error |-> error,
     metadata |-> EmptyDict]

IsToolResult(v) == v.t = "ToolResult"

\* An exception object: its class, whether the class derives from Exception
\* (as opposed to BaseException only), and str(e).
Exc(cls, isException, msg) ==
    [t |-> "exc", cls |-> cls, isException |-> isException, msg |-> msg]

----------------------------------------------------------------------------
(* ToolResult.dict(): the envelope as a plain dictionary of its four fields *)

\* Mutant of ModelDict: the payload is left out of the serialized form.
ModelDictWithoutData(r) ==
    [t |-> "dict", keys |-> {"success", "data", "error", "metadata"},
     success |-> r.success, data |-> None, error |-> r.error,
     metadata |-> r.metadata]

ModelDict(r) ==
    [t |-> "dict", keys |-> {"success", "data", "error", "metadata"},
     success |-> r.success, data |-> r.data, error |-> r.error,
     metadata |-> r.metadata]

\* result.dict() as execute_tool calls it on whatever the tool returned: an
\* object without a dict attribute raises AttributeError.
HasDict(v) == IsToolResult(v)
NoDictError(v) ==
    Exc("AttributeError", TRUE,
        "'" \o (IF v.t = "None" THEN "NoneType" ELSE v.t)
            \o "' object has no attribute 'dict'")

----------------------------------------------------------------------------
(* Memory *)

SetRecord(key, value) == [action |-> "set", key |-> key, value |-> value]
DeleteRecord(key) == [action |-> "delete", key |-> key]

\* self._store[key] = value
StoreSet(s, key, value) ==
    [k \in DOMAIN s \cup {key} |-> IF k = key THEN value ELSE s[k]]

\* del self._store[key]
StoreDel(s, key) == [k \in DOMAIN s \ {key} |-> s[k]]

\* Mutant of SetStore: a key that is present keeps its value (setdefault).
SetStoreKeepsFirst(s, key, value) ==
    IF key \in DOMAIN s THEN s ELSE [k \in DOMAIN s \cup {key} |-> IF k = key THEN value ELSE s[k]]

\* Mutant of SetHistory: the record is put at the front (insert(0, record)).
SetHistoryAtFront(h, key, value) == <<[action |-> "set", key |-> key, value |-> value]>> \o h

\* Memory.set: the store and the history after set(key, value)
SetStore(s, key, value) == StoreSet(s, key, value)
SetHistory(h, key, value) == Append(h, SetRecord(key, value))

\* Mutant of DeleteHistory: a record is appended whether or not the key is
\* present.
DeleteHistoryAlways(h, s, key) == Append(h, [action |-> "delete", key |-> key])

\* Memory.delete: the store and the history after delete(key)
DeleteStore(s, key) == IF key \in DOMAIN s THEN StoreDel(s, key) ELSE s
DeleteHistory(h, s, key) ==
    IF key \in DOMAIN s THEN Append(h, DeleteRecord(key)) ELSE h

\* Mutant of MemoryGet: the default is ignored (self._store.get(key)).
MemoryGetNoDefault(s, key, default) == IF key \in DOMAIN s THEN s[key] ELSE None

\* Memory.get: self._store.get(key, default)
MemoryGet(s, key, default) == IF key \in DOMAIN s THEN s[key] ELSE default

\* Memory.list_keys: list(self._store.keys())
MemoryListKeys(s) == DOMAIN s

\* Memory.get_history: self._history.copy(), a new list holding the same
\* record objects. An element of the returned list is a reference to the i-th
\* record object of the memory's history ([ref |-> i]).
MemoryGetHistory(h) == [i \in 1..Len(h) |-> [ref |-> i]]

----------------------------------------------------------------------------
(* The objects a caller hands to register_tool *)

\* An object: whether its class is an explicit subclass of Tool, which
\* protocol members it has as attributes, its name, its truth value, and what
\* its execute does.
Obj(id, subclass, hasName, name, hasDescription, hasExecute, truthy, behaviour) ==
    [t |-> "obj", id |-> id, subclass |-> subclass, hasName |-> hasName,
     name |-> name, hasDescription |-> hasDescription, hasExecute |-> hasExecute,
     truthy |-> truthy, behaviour |-> behaviour]

\* returns ToolResult(success=True, data={"echo": kwargs})
EchoTool == Obj("EchoTool", FALSE, TRUE, "echo", TRUE, TRUE, TRUE, "echo")
\* a second capability named "echo" whose execute can fail in every way
FlakyTool == Obj("FlakyTool", FALSE, TRUE, "echo", TRUE, TRUE, TRUE, "flaky")
\* a capability whose name is the empty string
EmptyNameTool == Obj("EmptyNameTool", FALSE, TRUE, "", TRUE, TRUE, TRUE, "echo")
\* a capability named "echo" whose object is falsy (it defines __bool__ or
\* __len__)
FalsyTool == Obj("FalsyTool", FALSE, TRUE, "echo", TRUE, TRUE, FALSE, "echo")
\* objects of classes unrelated to Tool that lack one member of the protocol
NoNameObj == Obj("NoNameObj", FALSE, FALSE, "", TRUE, TRUE, TRUE, "echo")
NoDescriptionObj ==
    Obj("NoDescriptionObj", FALSE, TRUE, "nodesc", FALSE, TRUE, TRUE, "echo")
NoExecuteObj == Obj("NoExecuteObj", FALSE, TRUE, "noexec", TRUE, FALSE, TRUE, "echo")
\* instances of explicit subclasses of Tool (class X(Tool)): execute is
\* inherited from Tool (its body is `...`, it returns None); one class sets
\* neither name nor description, the other sets name = "echo" only
SubclassNoName == Obj("SubclassNoName", TRUE, FALSE, "", FALSE, TRUE, TRUE, "none")
SubclassNoDescription ==
    Obj("SubclassNoDescription", TRUE, TRUE, "echo", FALSE, TRUE, TRUE, "none")

Objects == {EchoTool, FlakyTool, EmptyNameTool, FalsyTool,
            NoNameObj, NoDescriptionObj, NoExecuteObj,
            SubclassNoName, SubclassNoDescription}

\* Tool names a caller asks for; "ghost" is never the name of an object.
Names == {"echo", "", "ghost"}

\* Mutant of IsTool: the description is not looked for.
IsToolWithoutDescription(obj) == obj.subclass \/ (obj.hasName /\ obj.hasExecute)

\* isinstance(tool, Tool) for the runtime-checkable protocol: the object's
\* class is an explicit subclass of Tool, or every protocol member (name,
\* description, execute) is an attribute of the object (execute not None).
IsTool(obj) ==
    obj.subclass \/ (obj.hasName /\ obj.hasDescription /\ obj.hasExecute)

\* How `await tool.execute(**kwargs)` can resolve: a value returned or an
\* exception raised.
Returned(v) == [kind |-> "return", value |-> v]
Raised(e) == [kind |-> "raise", exc |-> e]

EchoResult(kwargs) ==
    ToolResult(TRUE, [t |-> "dict", keys |-> {"echo"}, echo |-> kwargs], None)

Outcomes(tool, kwargs) ==
    IF tool.behaviour = "echo" THEN {Returned(EchoResult(kwargs))}
    ELSE IF tool.behaviour = "none" THEN {Returned(None)}
    ELSE {Returned(ToolResult(FALSE, None, Str("refused"))),
          Returned(None),
          Raised(Exc("ValueError", TRUE, "boom")),
          Raised(Exc("CancelledError", FALSE, ""))}

AllOutcomes == UNION {Outcomes(tool, kw) : tool \in Objects, kw \in Kwargs}

----------------------------------------------------------------------------
(* tiny_agent.tools: the tools shipped with the agent *)

\* Instances of the three classes; each is an explicit subclass of Tool with
\* name, description and execute.
HTTPTool == Obj("HTTPTool", TRUE, TRUE, "http_request", TRUE, TRUE, TRUE, "http")
FileTool == Obj("FileTool", TRUE, TRUE, "file_operations", TRUE, TRUE, TRUE, "file")
ShellTool == Obj("ShellTool", TRUE, TRUE, "shell_command", TRUE, TRUE, TRUE, "shell")

\* get_default_tools().values(), in order
DefaultTools == <<HTTPTool, FileTool, ShellTool>>

\* Keyword arguments of the calls made to the shipped tools.
HttpKwargs == [t |-> "dict", keys |-> {"url"}, url |-> Str("http://host/")]
ReadKwargs ==
    [t |-> "dict", keys |-> {"action", "filepath"},
     action |-> Str("read"), filepath |-> Str("f.txt")]
ChmodKwargs ==
    [t |-> "dict", keys |-> {"action", "filepath"},
     action |-> Str("chmod"), filepath |-> Str("f.txt")]
ShellKwargs ==
    [t |-> "dict", keys |-> {"command", "timeout"},
     command |-> Str("sleep 5"), timeout |-> 1]

ShippedCalls ==
    {[name |-> "http_request", kwargs |-> HttpKwargs],
     [name |-> "file_operations", kwargs |-> ReadKwargs],
     [name |-> "file_operations", kwargs |-> ChmodKwargs],
     [name |-> "shell_command", kwargs |-> ShellKwargs]}

\* HTTPTool.execute: the response arrived (whatever its status code), or the
\* request or the decoding of the response raised.
HTTPExecute(kwargs) ==
    {Returned(ToolResult(TRUE,
                         [t |-> "dict",
                          keys |-> {"status_code", "headers", "text", "json"},
                          status_code |-> 404, headers |-> EmptyDict,
                          text |-> Str("body"), json |-> None],
                         None)),
     Returned(ToolResult(FALSE, None, Str("connection refused")))}

\* FileTool.execute: action "read" returns the content or the message of the
\* I/O error; an action that is none of read, write, exists is refused.
\* (write and exists return success with a payload in the same way as read.)
FileExecute(kwargs) ==
    IF kwargs.action = Str("read")
    THEN {Returned(ToolResult(TRUE,
                              [t |-> "dict", keys |-> {"content"},
                               content |-> Str("test content")],
                              None)),
          Returned(ToolResult(FALSE, None, Str("No such file or directory")))}
    ELSE {Returned(ToolResult(FALSE, None,
                              Str("Unknown action: " \o kwargs.action.s)))}

\* A subprocess: the call (agent, task) whose ShellTool.execute awaits it
\* (NoOwner once that execute has returned), and whether it is running or
\* has exited with a return code.
NoOwner == <<>>
Running(owner) == [owner |-> owner, status |-> "running"]
Exited(owner, rc) == [owner |-> owner, status |-> "exited", returncode |-> rc]
ExitCodes == {0, 1}

\* The subprocesses that the execute of call `owner` created and awaits.
OwnedBy(ps, owner) == {p \in DOMAIN ps : ps[p].owner = owner}

ShellData(rc) ==
    [t |-> "dict", keys |-> {"returncode", "stdout", "stderr"},
     returncode |-> rc, stdout |-> Str(""), stderr |-> Str("")]

\* Mutant of ShellResult: a non-zero return code is reported as an error.
ShellResultErrorOnFailure(rc) ==
    IF rc = 0
    THEN [t |-> "ToolResult", success |-> TRUE, data |-> ShellData(rc),
          error |-> None, metadata |-> EmptyDict]
    ELSE [t |-> "ToolResult", success |-> FALSE, data |-> None,
          error |-> Str("Command failed"), metadata |-> EmptyDict]

\* ToolResult(success=process.returncode == 0, data={returncode, stdout, stderr})
ShellResult(rc) == ToolResult(rc = 0, ShellData(rc), None)

\* ShellTool.execute, resolving for the call `owner` given the subprocesses:
\* create_subprocess_shell raised (no subprocess was created); or
\* communicate() returned because the subprocess exited; or wait_for raised
\* TimeoutError while the subprocess was running.
ShellExecute(ps, owner) ==
    IF OwnedBy(ps, owner) = {}
    THEN {Returned(ToolResult(FALSE, None, Str("Resource temporarily unavailable")))}
    ELSE LET p == CHOOSE q \in OwnedBy(ps, owner) : TRUE IN
         IF ps[p].status = "exited"
         THEN {Returned(ShellResult(ps[p].returncode))}
         ELSE {Returned(ToolResult(FALSE, None, Str("Command timed out")))}

\* The subprocesses once the execute of call `owner` has returned: a
\* subprocess that exited has been waited for and is gone; one that is
\* running is left as it is (nothing kills it), awaited by nobody.
Released(ps, owner) ==
    [p \in {q \in DOMAIN ps : ~(ps[q].owner = owner /\ ps[q].status = "exited")} |->
        IF ps[p].owner = owner THEN Running(NoOwner) ELSE ps[p]]

\* How the `await tool.execute(**kwargs)` of the suspended call `owner` can
\* resolve.
Resolutions(tool, kwargs, owner, ps) ==
    IF tool.behaviour = "shell" THEN ShellExecute(ps, owner)
    ELSE IF tool.behaviour = "http" THEN HTTPExecute(kwargs)
    ELSE IF tool.behaviour = "file" THEN FileExecute(kwargs)
    ELSE Outcomes(tool, kwargs)

ShippedOutcomes ==
    HTTPExecute(HttpKwargs) \cup FileExecute(ReadKwargs) \cup FileExecute(ChmodKwargs)
    \cup {Returned(ShellResult(rc)) : rc \in ExitCodes}
    \cup ShellExecute([p \in {} |-> None], NoOwner)
    \cup ShellExecute([p \in {1} |-> Running(NoOwner)], NoOwner)

----------------------------------------------------------------------------
(* Agent kernel: the pure parts *)

\* Mutant of ResultKey: one key for every tool name.
ResultKeyWithoutName(name) == "tool_last_result"

\* f"tool_{tool_name}_last_result"
ResultKey(name) == "tool_" \o name \o "_last_result"

\* Mutant of NotFoundResult: the name is not quoted in the message.
NotFoundResultUnquoted(name) ==
    [t |-> "ToolResult", success |-> FALSE, data |-> None,
     error |-> Str("Tool " \o name \o " not found"), metadata |-> EmptyDict]

\* ToolResult(success=False, error=f"Tool '{tool_name}' not found")
NotFoundResult(name) ==
    ToolResult(FALSE, None, Str("Tool '" \o name \o "' not found"))

\* `except Exception as e`: the classes the handler catches
Caught(e) == e.isException

\* Mutant of FaultResult: the error is the exception's class name, not str(e).
FaultResultClassName(e) ==
    [t |-> "ToolResult", success |-> FALSE, data |-> None,
     error |-> Str(e.cls), metadata |-> EmptyDict]

\* ToolResult(success=False, error=str(e))
FaultResult(e) == ToolResult(FALSE, None, Str(e.msg))

\* Agent.get_tool: self.tools.get(name)
GetToolOf(reg, name) == IF name \in DOMAIN reg THEN reg[name] ELSE None

\* `if not tool`: None is falsy, an object is falsy when it says so
Falsy(v) == IF v.t = "None" THEN TRUE ELSE ~v.truthy

\* self.tools[tool.name] = tool
Registered(reg, obj) ==
    [n \in DOMAIN reg \cup {obj.name} |-> IF n = obj.name THEN obj ELSE reg[n]]

\* Mutant of RegisterIn: the registry is one dictionary shared by every agent
\* (a class attribute).
RegisterInShared(ts, a, obj) ==
    [b \in DOMAIN ts |->
        [n \in DOMAIN ts[b] \cup {obj.name} |-> IF n = obj.name THEN obj ELSE ts[b][n]]]

\* register_tool on agent a: self.tools is the dictionary that this agent's
\* __init__ created, so the assignment reaches agent a's registry only.
RegisterIn(ts, a, obj) == [ts EXCEPT ![a] = Registered(@, obj)]

\* tool.name on an object without that attribute
NoNameError(obj) ==
    Exc("AttributeError", TRUE, "'" \o obj.id \o "' object has no attribute 'name'")

\* TypeError(f"Tool {tool} does not implement Tool protocol")
NotAToolError(obj) ==
    Exc("TypeError", TRUE, "Tool " \o obj.id \o " does not implement Tool protocol")

\* Mutant of BoundTool: the registry is read again when the await resolves.
LateBoundTool(call, reg) ==
    IF call.name \in DOMAIN reg THEN reg[call.name] ELSE call.tool

\* The object whose execute a suspended call awaits: the local variable
\* `tool`, assigned by the lookup before the await; the registry as it is
\* when the await resolves plays no part.
BoundTool(call, reg) == call.tool

\* The body of the try block once `await tool.execute(**kwargs)` has resolved:
\* either the result is serialized, stored and returned, or an exception is
\* raised (by the tool, or by result.dict()).
TryBody(outcome) ==
    IF outcome.kind = "raise" THEN [kind |-> "raise", exc |-> outcome.exc]
    ELSE IF ~HasDict(outcome.value)
         THEN [kind |-> "raise", exc |-> NoDictError(outcome.value)]
         ELSE [kind |-> "stored", value |-> outcome.value]

\* Mutant of RunSummary: list_keys() is read before the set of "current_task".
RunSummaryKeysBeforeSet(task, reg, s) ==
    [t |-> "dict", keys |-> {"task", "status", "tools_available", "memory_keys"},
     task |-> task, status |-> Str("completed"),
     tools_available |-> DOMAIN reg, memory_keys |-> DOMAIN s]

\* Agent.run: the summary returned for `task`, given the registry and the
\* store as they were at the call; list_keys() is read after the set of
\* "current_task".
RunSummary(task, reg, s) ==
    [t |-> "dict", keys |-> {"task", "status", "tools_available", "memory_keys"},
     task |-> task, status |-> Str("completed"),
     tools_available |-> DOMAIN reg,
     memory_keys |-> MemoryListKeys(SetStore(s, "current_task", task))]

----------------------------------------------------------------------------
(* State *)

Idle == [t |-> "idle"]

\* The record of a step: what was called on which agent, what it returned
\* (ret), what it raised to its caller (exc, None when it returned), and the
\* tool invocations it made (invoked).
Step(op, a, args, ret, exc, invoked) ==
    [op |-> op, a |-> a, args |-> args, ret |-> ret, exc |-> exc,
     invoked |-> invoked]

\* Memory.__init__ and Agent.__init__ for every agent; nothing called yet.
Init ==
    /\ store = [a \in Agents |-> [k \in {} |-> None]]
    /\ history = [a \in Agents |-> <<>>]
    /\ tools = [a \in Agents |-> [n \in {} |-> None]]
    /\ pending = [a \in Agents |-> [c \in Slots |-> Idle]]
    /\ procs = [p \in {} |-> None]
    /\ last = Step("init", 0, None, None, None, <<>>)

Room(a) == Len(history[a]) < MaxHistory

\* Values, keys and defaults a caller passes to the Memory API.
Keys == {"k1", "current_task"}
Values == {Str("v1"), Str("v2")}
Defaults == {None, Str("dflt")}

----------------------------------------------------------------------------
(* Memory operations, called on agent a's memory *)

MemSet(a, key, value) ==
    /\ Room(a)
    /\ store' = [store EXCEPT ![a] = SetStore(@, key, value)]
    /\ history' = [history EXCEPT ![a] = SetHistory(@, key, value)]
    /\ last' = Step("set", a, [key |-> key, value |-> value], None, None, <<>>)
    /\ UNCHANGED <<tools, pending, procs>>

MemDelete(a, key) ==
    /\ key \in DOMAIN store[a] => Room(a)
    /\ store' = [store EXCEPT ![a] = DeleteStore(@, key)]
    /\ history' = [history EXCEPT ![a] = DeleteHistory(@, store[a], key)]
    /\ last' = Step("delete", a, [key |-> key, present |-> key \in DOMAIN store[a]],
                    None, None, <<>>)
    /\ UNCHANGED <<tools, pending, procs>>

MemGet(a, key, default) ==
    /\ last' = Step("get", a, [key |-> key, default |-> default],
                    MemoryGet(store[a], key, default), None, <<>>)
    /\ UNCHANGED <<store, history, tools, pending, procs>>

MemListKeys(a) ==
    /\ last' = Step("list_keys", a, None,
                    [t |-> "list", elems |-> MemoryListKeys(store[a])], None, <<>>)
    /\ UNCHANGED <<store, history, tools, pending, procs>>

MemGetHistory(a) ==
    /\ last' = Step("get_history", a, None,
                    [t |-> "list", refs |-> MemoryGetHistory(history[a])], None, <<>>)
    /\ UNCHANGED <<store, history, tools, pending, procs>>

----------------------------------------------------------------------------
(* Agent operations *)

RegisterTool(a, obj) ==
    IF ~IsTool(obj)
    THEN /\ last' = Step("register_tool", a, [tool |-> obj], None,
                         NotAToolError(obj), <<>>)
         /\ UNCHANGED <<store, history, tools, pending, procs>>
    ELSE IF ~obj.hasName
    THEN /\ last' = Step("register_tool", a, [tool |-> obj], None,
                         NoNameError(obj), <<>>)
         /\ UNCHANGED <<store, history, tools, pending, procs>>
    ELSE /\ tools' = RegisterIn(tools, a, obj)
         /\ last' = Step("register_tool", a, [tool |-> obj], None, None, <<>>)
         /\ UNCHANGED <<store, history, pending, procs>>

GetTool(a, name) ==
    /\ last' = Step("get_tool", a, [name |-> name], GetToolOf(tools[a], name),
                    None, <<>>)
    /\ UNCHANGED <<store, history, tools, pending, procs>>

\* execute_tool up to its `await`: the lookup, the not-found return, or the
\* invocation of tool.execute(**kwargs), which suspends task c.
ExecStart(a, c, name, kwargs) ==
    /\ pending[a][c] = Idle
    /\ LET tool == GetToolOf(tools[a], name) IN
       IF Falsy(tool)
       THEN /\ last' = Step("execute_tool", a,
                            [name |-> name, kwargs |-> kwargs, found |-> tool],
                            NotFoundResult(name), None, <<>>)
            /\ UNCHANGED <<store, history, tools, pending, procs>>
       ELSE /\ pending' = [pending EXCEPT ![a][c] =
                              [t |-> "call", name |-> name, tool |-> tool,
                               kwargs |-> kwargs]]
            /\ last' = Step("execute_tool_await", a,
                            [name |-> name, kwargs |-> kwargs, found |-> tool],
                            None, None,
                            <<[tool |-> tool.id, kwargs |-> kwargs]>>)
            /\ UNCHANGED <<store, history, tools, procs>>

\* execute_tool from the moment tool.execute resolves with `outcome` to its
\* return (or to the exception leaving it).
ExecFinish(a, c, outcome) ==
    /\ pending[a][c] # Idle
    /\ outcome \in Resolutions(BoundTool(pending[a][c], tools[a]),
                               pending[a][c].kwargs, <<a, c>>, procs)
    /\ LET call == pending[a][c]
           body == TryBody(outcome)
           args == [name |-> call.name, kwargs |-> call.kwargs,
                    tool |-> call.tool, outcome |-> outcome]
       IN
       /\ pending' = [pending EXCEPT ![a][c] = Idle]
       /\ IF body.kind = "stored"
          THEN /\ Room(a)
               /\ store' = [store EXCEPT ![a] =
                              SetStore(@, ResultKey(call.name), ModelDict(body.value))]
               /\ history' = [history EXCEPT ![a] =
                              SetHistory(@, ResultKey(call.name), ModelDict(body.value))]
               /\ last' = Step("execute_tool", a, args, body.value, None, <<>>)
          ELSE /\ UNCHANGED <<store, history>>
               /\ IF Caught(body.exc)
                  THEN last' = Step("execute_tool", a, args, FaultResult(body.exc),
                                    None, <<>>)
                  ELSE last' = Step("execute_tool", a, args, None, body.exc, <<>>)
       /\ procs' = Released(procs, <<a, c>>)
       /\ UNCHANGED tools

Run(a, task) ==
    /\ Room(a)
    /\ store' = [store EXCEPT ![a] = SetStore(@, "current_task", task)]
    /\ history' = [history EXCEPT ![a] = SetHistory(@, "current_task", task)]
    /\ last' = Step("run", a, [task |-> task],
                    RunSummary(task, tools[a], store[a]),
                    None, <<>>)
    /\ UNCHANGED <<tools, pending, procs>>

----------------------------------------------------------------------------
(* Specification: one agent, one task at a time, calling the API *)

Next ==
    \E a \in {1} :
        \/ \E k \in Keys, v \in Values : MemSet(a, k, v)
        \/ \E k \in Keys : MemDelete(a, k)
        \/ \E k \in Keys, d \in Defaults : MemGet(a, k, d)
        \/ MemListKeys(a)
        \/ MemGetHistory(a)
        \/ \E obj \in Objects : RegisterTool(a, obj)
        \/ \E n \in Names : GetTool(a, n)
        \/ \E n \in Names, kw \in Kwargs : ExecStart(a, 1, n, kw)
        \/ \E o \in AllOutcomes : ExecFinish(a, 1, o)
        \/ \E task \in Values : Run(a, task)

Spec == Init /\ [][Next]_vars

----------------------------------------------------------------------------
(* The shipped tools, used through the kernel *)

\* cli.py: `for tool in default_tools.values(): agent.register_tool(tool)`
RegisterDefaults(a) ==
    /\ tools' = [tools EXCEPT ![a] =
                    Registered(Registered(Registered(@, DefaultTools[1]),
                                          DefaultTools[2]), DefaultTools[3])]
    /\ last' = Step("register_defaults", a, None, None, None, <<>>)
    /\ UNCHANGED <<store, history, pending, procs>>

\* ShellTool.execute of the suspended call (a, c): create_subprocess_shell
\* has created the subprocess; the call now awaits communicate() under
\* wait_for.
ShellSpawn(a, c) ==
    /\ pending[a][c] # Idle
    /\ pending[a][c].tool.behaviour = "shell"
    /\ OwnedBy(procs, <<a, c>>) = {}
    /\ \E p \in Pids \ DOMAIN procs :
          /\ procs' = [q \in DOMAIN procs \cup {p} |->
                          IF q = p THEN Running(<<a, c>>) ELSE procs[q]]
          /\ last' = Step("create_subprocess_shell", a, [pid |-> p], None, None, <<>>)
    /\ UNCHANGED <<store, history, tools, pending>>

\* The operating system: the running subprocess p exits with return code rc.
\* One that no call awaits is reaped and gone.
ProcessExit(p, rc) ==
    /\ p \in DOMAIN procs
    /\ procs[p].status = "running"
    /\ procs' = IF procs[p].owner = NoOwner
                THEN [q \in DOMAIN procs \ {p} |-> procs[q]]
                ELSE [procs EXCEPT ![p] = Exited(procs[p].owner, rc)]
    /\ last' = Step("process_exit", 0, [pid |-> p, returncode |-> rc], None, None, <<>>)
    /\ UNCHANGED <<store, history, tools, pending>>

\* One agent with the shipped tools and a tool whose execute faults, one
\* task at a time; subprocesses exit when they will.
NextShipped ==
    \/ RegisterDefaults(1)
    \/ RegisterTool(1, FlakyTool)
    \/ \E call \in ShippedCalls : ExecStart(1, 1, call.name, call.kwargs)
    \/ ExecStart(1, 1, FlakyTool.name, MsgKwargs)
    \/ ShellSpawn(1, 1)
    \/ \E p \in Pids, rc \in ExitCodes : ProcessExit(p, rc)
    \/ \E o \in ShippedOutcomes \cup Outcomes(FlakyTool, MsgKwargs) :
           ExecFinish(1, 1, o)

SpecShipped == Init /\ [][NextShipped]_vars

----------------------------------------------------------------------------
(* Two agents in one process, each used through its own API; the same tool *)
(* object can be registered in both.                                       *)

TwoAgents == {1, 2}

\* The two histories together are explored up to MaxHistory records.
TwoRoom == Len(history[1]) + Len(history[2]) < MaxHistory

NextTwo ==
    \E a \in TwoAgents :
        \/ \E obj \in {EchoTool, FlakyTool} : RegisterTool(a, obj)
        \/ ExecStart(a, 1, EchoTool.name, MsgKwargs)
        \/ \E o \in Outcomes(EchoTool, MsgKwargs) \cup Outcomes(FlakyTool, MsgKwargs) :
               TwoRoom /\ ExecFinish(a, 1, o)
        \/ \E v \in Values : TwoRoom /\ MemSet(a, "k1", v)
        \/ TwoRoom /\ MemDelete(a, "k1")

SpecTwo == Init /\ [][NextTwo]_vars

----------------------------------------------------------------------------
(* One agent whose execute_tool is called by several tasks: a call can be  *)
(* started, and tools can be registered, while other calls are suspended   *)
(* in their await.                                                         *)

ByeKwargs == [t |-> "dict", keys |-> {"msg"}, msg |-> Str("bye")]
OverlapKwargs == {MsgKwargs, ByeKwargs}

NextOverlap ==
    \/ \E obj \in {EchoTool, FlakyTool} : RegisterTool(1, obj)
    \/ \E c \in Slots, kw \in OverlapKwargs : ExecStart(1, c, "echo", kw)
    \/ \E c \in Slots :
           \E o \in UNION {Outcomes(obj, kw) :
                              obj \in {EchoTool, FlakyTool}, kw \in OverlapKwargs} :
               ExecFinish(1, c, o)

SpecOverlap == Init /\ [][NextOverlap]_vars

----------------------------------------------------------------------------
(* A caller working on the list that Memory.get_history() returned to it.   *)
(* The list is the caller's own object; its elements are the record objects *)
(* of the memory's history (references), or records the caller put there.   *)

CallerOps == {"list_append", "list_pop", "record_setitem"}

HoldsList == last.op \in {"get_history"} \cup CallerOps

\* A record made by the caller.
ForgedRecord == SetRecord("forged", Str("forged"))

\* returned.append(record)
CallerAppend ==
    /\ HoldsList
    /\ Len(last.ret.refs) < MaxHistory
    /\ last' = Step("list_append", last.a, None,
                    [t |-> "list", refs |-> Append(last.ret.refs, [own |-> ForgedRecord])],
                    None, <<>>)
    /\ UNCHANGED <<store, history, tools, pending, procs>>

\* returned.pop()
CallerPop ==
    /\ HoldsList
    /\ Len(last.ret.refs) > 0
    /\ last' = Step("list_pop", last.a, None,
                    [t |-> "list",
                     refs |-> SubSeq(last.ret.refs, 1, Len(last.ret.refs) - 1)],
                    None, <<>>)
    /\ UNCHANGED <<store, history, tools, pending, procs>>

\* returned[i]["key"] = "forged": an assignment to a field of the record
\* object that the i-th element of the list refers to.
CallerSetItem(i) ==
    /\ HoldsList
    /\ i \in 1..Len(last.ret.refs)
    /\ LET e == last.ret.refs[i] IN
       IF "ref" \in DOMAIN e
       THEN /\ history' = [history EXCEPT ![last.a][e.ref].key = "forged"]
            /\ last' = Step("record_setitem", last.a, [index |-> i], last.ret,
                            None, <<>>)
       ELSE /\ history' = history
            /\ last' = Step("record_setitem", last.a, [index |-> i],
                            [t |-> "list",
                             refs |-> [last.ret.refs EXCEPT ![i] =
                                          [own |-> [e.own EXCEPT !.key = "forged"]]]],
                            None, <<>>)
    /\ UNCHANGED <<store, tools, pending, procs>>

\* One Memory used through its API by a caller that also works on the lists
\* get_history() returned.
NextCaller ==
    \/ \E k \in Keys, v \in Values : MemSet(1, k, v)
    \/ \E k \in Keys : MemDelete(1, k)
    \/ \E k \in Keys, d \in Defaults : MemGet(1, k, d)
    \/ MemGetHistory(1)
    \/ CallerAppend
    \/ CallerPop
    \/ \E i \in 1..MaxHistory : CallerSetItem(i)

SpecCaller == Init /\ [][NextCaller]_vars

----------------------------------------------------------------------------
(* Properties *)

\* The latest step is the return of (or the exception leaving) an
\* execute_tool call whose tool.execute was invoked and has resolved.
Resolved(l) == l.op = "execute_tool" /\ "outcome" \in DOMAIN l.args

\* The latest step is execute_tool's lookup (it returned not-found at once
\* or invoked the tool).
LookedUp(l) ==
    l.op \in {"execute_tool", "execute_tool_await"} /\ "found" \in DOMAIN l.args

\* C1: every execute_tool call on a registered tool that returns an envelope
\* (the tool's own, or the failure envelope of a caught fault) leaves
\* Memory.get("tool_<name>_last_result") equal to the serialized envelope it
\* returned and appends exactly one 'set' record for that key.
C1_EveryOutcomeRecorded ==
    [][(Resolved(last') /\ last'.exc = None) =>
         LET a == last'.a
             key == "tool_" \o last'.args.name \o "_last_result"
             ser == [t |-> "dict", keys |-> {"success", "data", "error", "metadata"},
                     success |-> last'.ret.success, data |-> last'.ret.data,
                     error |-> last'.ret.error, metadata |-> last'.ret.metadata]
         IN /\ MemoryGet(store'[a], key, None) = ser
            /\ history'[a] = Append(history[a],
                                    [action |-> "set", key |-> key, value |-> ser])]_vars

\* The message of the fault with which an invocation ended: the exception
\* the tool raised, or the AttributeError of serializing a returned None.
IsFault(outcome) ==
    outcome.kind = "raise" \/ (outcome.kind = "return" /\ outcome.value = None)
FaultMessage(outcome) ==
    IF outcome.kind = "raise" THEN outcome.exc.msg
    ELSE "'NoneType' object has no attribute 'dict'"
FaultIsException(outcome) ==
    outcome.kind = "raise" => outcome.exc.isException

FailureEnvelope(v, msg) ==
    /\ v.t = "ToolResult"
    /\ v.success = FALSE
    /\ v.error = Str(msg)

\* C2 (as claimed): for every fault raised while a registered tool's execute
\* runs or while its result is serialized, execute_tool returns a ToolResult
\* with success=false and error equal to the fault's message, and propagates
\* no exception.
C2_EveryFaultReturned ==
    (Resolved(last) /\ IsFault(last.args.outcome)) =>
        /\ last.exc = None
        /\ FailureEnvelope(last.ret, FaultMessage(last.args.outcome))

\* C2 (amended): the same for every fault whose class derives from Exception;
\* a fault whose class derives from BaseException only (asyncio.CancelledError,
\* KeyboardInterrupt, SystemExit) leaves execute_tool as that exception.
C2_ExceptionFaultReturned ==
    (Resolved(last) /\ IsFault(last.args.outcome)) =>
        IF FaultIsException(last.args.outcome)
        THEN /\ last.exc = None
             /\ FailureEnvelope(last.ret, FaultMessage(last.args.outcome))
        ELSE last.exc = last.args.outcome.exc

\* C2 witness: a registered tool raised ValueError("boom") and execute_tool
\* returned the failure envelope.
C2_Witness ==
    /\ Resolved(last)
    /\ last.args.outcome = Raised(Exc("ValueError", TRUE, "boom"))
    /\ last.exc = None
    /\ last.ret.error = Str("boom")

\* C3: execute_tool with a name that is not a key of the registry returns the
\* envelope success=false, error "Tool '<name>' not found", raises nothing,
\* invokes no tool and leaves store, history and registry as they were.
C3_NotFoundChangesNothing ==
    [][(LookedUp(last') /\ last'.args.name \notin DOMAIN tools[last'.a]) =>
         /\ last'.op = "execute_tool"
         /\ last'.exc = None
         /\ FailureEnvelope(last'.ret, "Tool '" \o last'.args.name \o "' not found")
         /\ last'.invoked = <<>>
         /\ store' = store
         /\ history' = history
         /\ tools' = tools
         /\ pending' = pending]_vars

\* C3 witness: "ghost" was asked for on an agent that has tools registered
\* and records in memory.
C3_Witness ==
    /\ LookedUp(last)
    /\ last.args.name = "ghost"
    /\ last.ret # None
    /\ DOMAIN tools[last.a] # {}
    /\ history[last.a] # <<>>

\* C4: when the tool's execute returns an envelope, execute_tool returns that
\* envelope with its four fields unchanged, and the value then stored under
\* "tool_<name>_last_result" has the same four field values; the echo tool
\* called with msg="hi" yields data.echo.msg == "hi" in both.
C4_EnvelopeReturnedUnchanged ==
    (/\ Resolved(last)
     /\ last.args.outcome.kind = "return"
     /\ last.args.outcome.value.t = "ToolResult") =>
        LET env == last.args.outcome.value
            m == MemoryGet(store[last.a],
                           "tool_" \o last.args.name \o "_last_result", None)
        IN /\ last.exc = None
           /\ last.ret = env
           /\ m.t = "dict"
           /\ m.success = env.success
           /\ m.data = env.data
           /\ m.error = env.error
           /\ m.metadata = env.metadata
           /\ (last.args.tool = EchoTool /\ last.args.kwargs = MsgKwargs) =>
                 /\ last.ret.success = TRUE
                 /\ last.ret.data.echo.msg = Str("hi")
                 /\ m.data.echo.msg = Str("hi")

\* C4 witness: the echo tool was called with msg="hi" and the call returned.
C4_Witness ==
    /\ Resolved(last)
    /\ last.args.tool = EchoTool
    /\ last.args.kwargs = MsgKwargs
    /\ last.ret.t = "ToolResult"
    /\ last.ret.data.echo.msg = Str("hi")
    /\ "tool_echo_last_result" \in DOMAIN store[last.a]

\* The mapping obtained by replaying a history from the empty mapping: a
\* 'set' record assigns its value to its key, a 'delete' record removes its key.
RECURSIVE Replay(_)
Replay(h) ==
    IF h = <<>> THEN [k \in {} |-> None]
    ELSE LET prev == Replay(SubSeq(h, 1, Len(h) - 1))
             r == h[Len(h)]
         IN IF r.action = "set"
            THEN [k \in DOMAIN prev \cup {r.key} |->
                     IF k = r.key THEN r.value ELSE prev[k]]
            ELSE [k \in DOMAIN prev \ {r.key} |-> prev[k]]

\* C5: in every reachable state of a Memory used through its operations
\* (execute_tool's and run's writes included), the key-value mapping equals
\* the replay of the history.
C5_StoreIsReplayOfHistory == \A a \in Agents : store[a] = Replay(history[a])

\* C5 witness: a key was written twice with different values and holds the
\* later one.
C5_Witness ==
    \E a \in Agents :
        /\ Len(history[a]) >= 2
        /\ history[a][1].action = "set"
        /\ history[a][2].action = "set"
        /\ history[a][1].key = history[a][2].key
        /\ history[a][1].value # history[a][2].value
        /\ store[a][history[a][2].key] = history[a][2].value

\* C6: delete(key) on a present key removes it from list_keys() and appends
\* exactly one 'delete' record for it; on an absent key it appends nothing
\* and leaves mapping and history unchanged.
C6_DeleteRecordsOnlyPresentKeys ==
    [][last'.op = "delete" =>
         LET a == last'.a
             key == last'.args.key
         IN IF key \in DOMAIN store[a]
            THEN /\ key \notin MemoryListKeys(store'[a])
                 /\ history'[a] = Append(history[a], [action |-> "delete", key |-> key])
            ELSE /\ store' = store
                 /\ history' = history]_vars

\* C6 witness: a present key was deleted; the history ends with its record.
C6_Witness ==
    /\ last.op = "delete"
    /\ last.args.present
    /\ last.args.key \notin DOMAIN store[last.a]
    /\ history[last.a][Len(history[last.a])].action = "delete"

\* The indices of the history records about `key`.
RecordsOf(h, key) == {i \in 1..Len(h) : h[i].key = key}
Latest(S) == CHOOSE i \in S : \A j \in S : j <= i

\* C7: get(k, d) returns the value of the latest set(k, v) when no delete of k
\* followed it, whatever happened to other keys since; it returns d (None
\* when no default is given) when k was never set or was deleted since.
C7_GetReturnsLatestSet ==
    last.op = "get" =>
        LET h == history[last.a]
            idx == RecordsOf(h, last.args.key)
        IN IF idx # {} /\ h[Latest(idx)].action = "set"
           THEN last.ret = h[Latest(idx)].value
           ELSE last.ret = last.args.default

\* C7 witness: k1 was set, another key was written after it, and get("k1")
\* returned the value set.
C7_Witness ==
    /\ last.op = "get"
    /\ last.args.key = "k1"
    /\ Len(history[last.a]) = 2
    /\ history[last.a][1].action = "set"
    /\ history[last.a][1].key = "k1"
    /\ history[last.a][2].key # "k1"
    /\ last.ret = history[last.a][1].value

\* C8: nothing a caller does to the value get_history() returned (appending
\* to it, removing from it, assigning to a field of a record in it) changes
\* the memory's history.
C8_ReturnedHistoryIsIndependent ==
    [][last'.op \in CallerOps => history' = history]_vars

\* C9: run(task) raises nothing and returns a summary with the task, status
\* "completed", exactly the registered names and "current_task" among the
\* memory keys; afterwards get("current_task") is the task; no tool is invoked.
C9_RunAlwaysCompletes ==
    last.op = "run" =>
        /\ last.exc = None
        /\ last.ret.task = last.args.task
        /\ last.ret.status = Str("completed")
        /\ last.ret.tools_available = DOMAIN tools[last.a]
        /\ "current_task" \in last.ret.memory_keys
        /\ MemoryGet(store[last.a], "current_task", None) = last.args.task
        /\ last.invoked = <<>>

\* C9 witness: run returned on an agent with tools registered and another key
\* in memory.
C9_Witness ==
    /\ last.op = "run"
    /\ DOMAIN tools[last.a] = {"echo", ""}
    /\ last.ret.memory_keys = {"k1", "current_task"}

\* C10 (as claimed): register_tool raises TypeError and leaves the registry
\* unchanged for every object that lacks a non-empty name, a description or an
\* execute operation, and succeeds only for objects that have all three.
C10_RejectsWithoutNonEmptyName ==
    [][last'.op = "register_tool" =>
         LET obj == last'.args.tool
             conforms == /\ obj.hasName /\ obj.name # ""
                         /\ obj.hasDescription /\ obj.hasExecute
         IN IF ~conforms
            THEN /\ last'.exc # None
                 /\ last'.exc.cls = "TypeError"
                 /\ tools' = tools
            ELSE /\ last'.exc = None
                 /\ obj.name \in DOMAIN tools'[last'.a]
                 /\ tools'[last'.a][obj.name] = obj]_vars

\* C10 (amended): register_tool raises TypeError and leaves the registry
\* unchanged for every object whose class is not an explicit subclass of Tool
\* and that lacks a name, a description or an execute attribute. Every other
\* object passes the check, the one whose name is the empty string included:
\* it is registered under its name, except that an instance of a subclass of
\* Tool without a name raises AttributeError at tool.name, registry unchanged.
C10_RejectsMissingMember ==
    [][last'.op = "register_tool" =>
         LET obj == last'.args.tool
             members == obj.hasName /\ obj.hasDescription /\ obj.hasExecute
         IN IF ~obj.subclass /\ ~members
            THEN /\ last'.exc # None
                 /\ last'.exc.cls = "TypeError"
                 /\ tools' = tools
            ELSE IF ~obj.hasName
            THEN /\ last'.exc # None
                 /\ last'.exc.cls = "AttributeError"
                 /\ tools' = tools
            ELSE /\ last'.exc = None
                 /\ obj.name \in DOMAIN tools'[last'.a]
                 /\ tools'[last'.a][obj.name] = obj]_vars

\* C10 witness: an object without a description was refused by an agent that
\* has a tool registered.
C10_Witness ==
    /\ last.op = "register_tool"
    /\ last.args.tool = NoDescriptionObj
    /\ last.exc # None
    /\ last.exc.cls = "TypeError"
    /\ DOMAIN tools[last.a] # {}

\* C11: a register_tool(t) that succeeds makes the registry map t.name to t
\* (replacing what was registered under that name), leaves every other entry
\* unchanged and changes neither store nor history; an execute_tool(name)
\* made afterwards invokes the object most recently registered under name.
C11_LastRegistrationWins ==
    [][/\ (last'.op = "register_tool" /\ last'.exc = None) =>
              LET a == last'.a
                  t == last'.args.tool
              IN /\ DOMAIN tools'[a] = DOMAIN tools[a] \cup {t.name}
                 /\ tools'[a][t.name] = t
                 /\ \A n \in DOMAIN tools[a] \ {t.name} : tools'[a][n] = tools[a][n]
                 /\ \A b \in Agents \ {a} : tools'[b] = tools[b]
                 /\ store' = store
                 /\ history' = history
       /\ (LookedUp(last') /\ last'.args.name \in DOMAIN tools[last'.a]) =>
              last'.invoked = <<[tool |-> tools[last'.a][last'.args.name].id,
                                 kwargs |-> last'.args.kwargs]>>]_vars

\* The envelope contract: a failure carries an error and no payload, a
\* success carries no error.
Contract(env) ==
    /\ env.t = "ToolResult"
    /\ env.success = FALSE => (env.error # None /\ env.data = None)
    /\ env.success = TRUE => env.error = None

\* C12 (as claimed): every envelope returned by execute_tool, made by the
\* kernel (not found, caught fault) or by HTTPTool, FileTool or ShellTool,
\* has an error and no payload when success is false, and no error when
\* success is true.
C12_EveryEnvelopeKeepsContract ==
    (last.op = "execute_tool" /\ last.exc = None) => Contract(last.ret)

\* C12 (amended): the same, except for the envelope ShellTool returns when
\* its subprocess exited with a non-zero return code: that one has
\* success=false, no error, and the payload {returncode, stdout, stderr}
\* with the subprocess's return code.
C12_ContractButShellExit ==
    [][(last'.op = "execute_tool" /\ last'.exc = None) =>
         LET a == last'.a
             exited == {p \in DOMAIN procs :
                          /\ procs[p].status = "exited"
                          /\ \E c \in Slots :
                                /\ procs[p].owner = <<a, c>>
                                /\ pending[a][c] # Idle
                                /\ pending'[a][c] = Idle}
         IN IF \E p \in exited : procs[p].returncode # 0
            THEN \E p \in exited :
                    /\ last'.ret.t = "ToolResult"
                    /\ last'.ret.success = FALSE
                    /\ last'.ret.error = None
                    /\ last'.ret.data # None
                    /\ last'.ret.data.keys = {"returncode", "stdout", "stderr"}
                    /\ last'.ret.data.returncode = procs[p].returncode
            ELSE Contract(last'.ret)]_vars

\* C12 witness: execute_tool returned ShellTool's envelope for a subprocess
\* that exited with return code 1.
C12_Witness ==
    /\ Resolved(last)
    /\ last.args.tool = ShellTool
    /\ last.exc = None
    /\ last.ret.success = FALSE
    /\ last.ret.data # None
    /\ last.ret.data.returncode = 1
    /\ MemoryGet(store[last.a], "tool_shell_command_last_result", None)
          = ModelDict(last.ret)

\* C14: when the timeout of ShellTool expires while its subprocess is
\* running, execute returns a failure envelope whose error contains
\* "timed out", and the subprocess is no longer running once it has returned.
C14_TimeoutKillsSubprocess ==
    [][\A c \in Slots, p \in DOMAIN procs :
         (/\ Resolved(last')
          /\ last'.args.tool = ShellTool
          /\ pending[last'.a][c] # Idle
          /\ pending'[last'.a][c] = Idle
          /\ procs[p] = Running(<<last'.a, c>>)) =>
            /\ last'.ret.t = "ToolResult"
            /\ last'.ret.success = FALSE
            /\ last'.ret.error = Str("Command timed out")
            /\ (p \in DOMAIN procs' => procs'[p].status # "running")]_vars

IsPrefix(s, t) == Len(s) <= Len(t) /\ SubSeq(t, 1, Len(s)) = s

\* The step is a call of Memory.set on agent a's memory (made by a caller,
\* by run, or by execute_tool once the tool returned an envelope) or a
\* delete that found its key present.
AppendingCall(a, l, s) ==
    /\ l.a = a
    /\ \/ l.op \in {"set", "run"}
       \/ l.op = "delete" /\ l.args.key \in DOMAIN s
       \/ /\ Resolved(l)
          /\ l.args.outcome.kind = "return"
          /\ l.args.outcome.value.t = "ToolResult"

\* C15: over every operation the history before it is a prefix of the
\* history after it, and the history grows by exactly one record on every
\* set call (execute_tool's and run's included) and on every delete that
\* found its key present, and by none otherwise: its length is the number
\* of those calls made so far.
C15_HistoryAppendOnly ==
    [][\A a \in Agents :
         /\ IsPrefix(history[a], history'[a])
         /\ Len(history'[a]) =
               Len(history[a]) + (IF AppendingCall(a, last', store[a]) THEN 1 ELSE 0)]_vars

\* C15 witness: run and execute_tool have each made their set call, and a
\* delete of an absent key has added nothing.
C15_Witness ==
    /\ last.op = "delete"
    /\ ~last.args.present
    /\ Len(history[last.a]) = 2
    /\ history[last.a][1].key = "current_task"
    /\ history[last.a][2].key = "tool_echo_last_result"

\* C16: execute_tool returns the not-found envelope exactly when the name is
\* not a key of the registry; for a name that is a key, whatever object is
\* registered under it, it invokes that object's execute with the kwargs
\* exactly once and, when that invocation ends in a fault, does not invoke
\* it again.
C16_NotFoundIffAbsent ==
    [][/\ LookedUp(last') =>
              LET a == last'.a
                  name == last'.args.name
              IN IF name \in DOMAIN tools[a]
                 THEN /\ last'.op = "execute_tool_await"
                      /\ last'.invoked = <<[tool |-> tools[a][name].id,
                                            kwargs |-> last'.args.kwargs]>>
                 ELSE /\ last'.op = "execute_tool"
                      /\ last'.ret = ToolResult(FALSE, None,
                                                Str("Tool '" \o name \o "' not found"))
                      /\ last'.invoked = <<>>
       /\ Resolved(last') => last'.invoked = <<>>]_vars

\* The mappings s and t differ at most at key k.
SameExceptAt(s, t, k) ==
    /\ DOMAIN s \ {k} = DOMAIN t \ {k}
    /\ \A j \in DOMAIN s \ {k} : s[j] = t[j]

\* C17: get, list_keys, get_history and get_tool change neither memory nor
\* registry; execute_tool changes at most the store entry
\* "tool_<name>_last_result" and run only "current_task", and neither changes
\* the registry; the result key of a name is never "current_task" nor the
\* result key of a different name.
C17_FrameConditions ==
    [][/\ last'.op \in {"get", "list_keys", "get_history", "get_tool"} =>
              /\ store' = store
              /\ history' = history
              /\ tools' = tools
              /\ pending' = pending
       /\ last'.op \in {"execute_tool", "execute_tool_await"} =>
              /\ tools' = tools
              /\ \A a \in Agents :
                    IF a = last'.a
                    THEN SameExceptAt(store[a], store'[a],
                                      "tool_" \o last'.args.name \o "_last_result")
                    ELSE store'[a] = store[a]
       /\ last'.op = "run" =>
              /\ tools' = tools
              /\ \A a \in Agents :
                    IF a = last'.a
                    THEN /\ SameExceptAt(store[a], store'[a], "current_task")
                         /\ store'[a]["current_task"] = last'.args.task
                    ELSE store'[a] = store[a]
       /\ \A n \in Names :
              /\ ResultKey(n) # "current_task"
              /\ \A k \in Names \ {n} : ResultKey(k) # ResultKey(n)]_vars

\* C17 witness: execute_tool stored the result of "echo" in a memory that
\* holds "current_task", which kept its value.
C17_Witness ==
    /\ Resolved(last)
    /\ last.args.name = "echo"
    /\ DOMAIN store[last.a] = {"current_task", "tool_echo_last_result"}
    /\ history[last.a][1] = SetRecord("current_task", store[last.a]["current_task"])
    /\ DOMAIN tools[last.a] = {"echo", ""}

\* C18: when an execute_tool call returns an envelope while another call
\* for the same name is suspended in execute, it appends, in the step in
\* which its own execute resolves, exactly one 'set' record of the envelope
\* it returns, so the records are in order of completion, and the value under
\* "tool_<name>_last_result" is then the envelope of the call that finished
\* last.
C18_OverlappingCallsRecorded ==
    [][(/\ Resolved(last')
        /\ last'.exc = None
        /\ \E d \in Slots : /\ pending'[last'.a][d] # Idle
                            /\ pending'[last'.a][d].name = last'.args.name) =>
         LET a == last'.a
             key == "tool_" \o last'.args.name \o "_last_result"
         IN /\ history'[a] = Append(history[a], SetRecord(key, ModelDict(last'.ret)))
            /\ key \in DOMAIN store'[a]
            /\ store'[a][key] = ModelDict(last'.ret)]_vars

\* The slots of agent a whose call returned (or raised) in this step.
Finished(a, before, after) ==
    {c \in Slots : before[a][c] # Idle /\ after[a][c] = Idle}

\* C19: a call keeps the tool it looked up. The lookup hands the invocation
\* to the object registered at that moment; whatever register_tool does to
\* the entry while the call is suspended, the call resolves as that object's
\* execute resolves, returns its envelope and stores it under
\* "tool_<name>_last_result".
C19_CallKeepsLookedUpTool ==
    [][/\ last'.op = "execute_tool_await" =>
              \E c \in Slots :
                  /\ pending[last'.a][c] = Idle
                  /\ pending'[last'.a][c] # Idle
                  /\ pending'[last'.a][c].tool = tools[last'.a][last'.args.name]
                  /\ last'.invoked = <<[tool |-> pending'[last'.a][c].tool.id,
                                        kwargs |-> last'.args.kwargs]>>
       /\ Resolved(last') =>
              \E c \in Finished(last'.a, pending, pending') :
                  LET a == last'.a
                      call == pending[a][c]
                      outcome == last'.args.outcome
                  IN /\ last'.args.tool = call.tool
                     /\ outcome \in Outcomes(call.tool, call.kwargs)
                     /\ (outcome.kind = "return" /\ outcome.value.t = "ToolResult") =>
                           /\ last'.ret = outcome.value
                           /\ store'[a]["tool_" \o call.name \o "_last_result"]
                                 = ModelDict(outcome.value)]_vars

\* C19 witness: the echo tool was replaced while a call of it was suspended;
\* the call returned the echo tool's envelope, and the memory holds the result
\* of a tool that is no longer registered.
C19_Witness ==
    /\ Resolved(last)
    /\ last.args.tool = EchoTool
    /\ tools[last.a]["echo"] = FlakyTool
    /\ last.ret = EchoResult(last.args.kwargs)
    /\ store[last.a]["tool_echo_last_result"] = ModelDict(EchoResult(last.args.kwargs))

====
